---- MODULE Spec2Model ----
(***************************************************************************)
(* Model of the Minesweeper rules engine (src/src/lib.rs and               *)
(* src/src/mine_sweeper_cell.rs): grid generation, adjacency counts,       *)
(* reveal with flood fill, marking operations and win/loss evaluation.     *)
(*                                                                         *)
(* A Vec is modelled as a function over 0..len-1 when it is indexed by a   *)
(* grid index (the grid, the shuffled index vector) and as a sequence when *)
(* it is only pushed, popped and iterated.                                 *)
(***************************************************************************)
EXTENDS Integers, Sequences, FiniteSets, TLC

\* ---- bounds of the model ------------------------------------------------
MaxCells == 12      \* grids have at least 3 rows and 3 columns and at most MaxCells cells
RandLevels == 2     \* random() yields k/RandLevels, k in 0..RandLevels-1
RandPeriod == 2     \* the values of random() repeat with this period
MaxTargets == 2     \* the player's calls take an index in 0..MaxTargets-1
MaxBeyond == 1      \* or one of the first MaxBeyond indices past the end of the grid
MaxSide == 5        \* adjacent_indices is applied to grids of 1..MaxSide rows and columns
MaxShuffleLen == 9  \* every outcome of the shuffle is computed for 1..MaxShuffleLen indices

\* ---- program constants --------------------------------------------------
\* 0.15f32 is 10066330 * 2^-26 (bit pattern 0x3E19999A)
MineDensityF32 == 10066330
\* u8 arithmetic of adj_mine_count
U8Modulus == 256
\* usize is a 32 bit word (wasm32), held as two 16 bit halves [hi, lo]
UsizeHalf == 65536

VARIABLES
    grid,       \* Minesweeper.grid: [0..len-1 -> Cell]
    num_rows,   \* Minesweeper.num_rows
    num_cols,   \* Minesweeper.num_cols
    lastOp,     \* the last operation made and its index argument
    panicked    \* the last call ended in a panic

vars == <<grid, num_rows, num_cols, lastOp, panicked>>

\* ---- helpers on Vec ------------------------------------------------------
Range(s) == {s[k] : k \in DOMAIN s}

contains(s, x) == \E k \in 1..Len(s) : s[k] = x

Pow2(k) == 2 ^ k

\* ---- Cell (mine_sweeper_cell.rs) ------------------------------------------
CellState == {"Revealed", "Flagged", "Questioned", "Hidden"}

CellKind == {"Mine", "Empty"}

Cell_new(kind) == [state |-> "Hidden", kind |-> kind, adj_mine_count |-> 0]

is_flagged(cell) == cell.state = "Flagged"

is_questioned(cell) == cell.state = "Questioned"

is_revealed(cell) == cell.state = "Revealed"

is_mined(cell) == cell.kind = "Mine"

set_state(cell, state) == [cell EXCEPT !.state = state]

set_adj_mine_count(cell, count) == [cell EXCEPT !.adj_mine_count = count]

\* lone cell test that forgets the adjacent mine count
is_lone_cell_any_count(cell) == cell.kind = "Empty"

is_lone_cell(cell) == cell.kind = "Empty" /\ cell.adj_mine_count = 0

\* ---- grid construction (lib.rs) -------------------------------------------
empty_grid(rows, cols) == [i \in 0..(rows * cols - 1) |-> Cell_new("Empty")]

\* swap that loses the element at a
swap_overwrite(v, a, b) == [v EXCEPT ![a] = v[b]]

\* v.swap(a, b)
swap(v, a, b) == [v EXCEPT ![a] = v[b], ![b] = v[a]]

\* floor(random() * i as f64) as usize, with random() = k / RandLevels
rand_index(k, i) == (k * i) \div RandLevels

\* for i in (1..v.len()).rev() { v.swap(i, ridx) }; rnd[i] is the draw at i
RECURSIVE shuffle_from(_, _, _)
shuffle_from(v, i, rnd) ==
    IF i < 1 THEN v
    ELSE shuffle_from(swap(v, i, rand_index(rnd[i], i)), i - 1, rnd)

shuffle(v, len, rnd) == shuffle_from(v, len - 1, rnd)

\* the values of floor(random() * i as f64) as usize: random() is in [0, 1),
\* so the product is in [0, i) and its floor is one of 0..i-1
ridx_values(i) == 0..(i - 1)

\* the vectors that shuffle can make of v from loop index i on, over all
\* the values of random()
RECURSIVE shuffle_results(_, _)
shuffle_results(v, i) ==
    IF i < 1 THEN {v}
    ELSE UNION {shuffle_results(swap(v, i, ridx), i - 1) : ridx \in ridx_values(i)}

\* the results of gen_rand_grid_indices(len, count), as sets of indices
gen_rand_grid_indices_results(len, count) ==
    LET grid_indices == [i \in 0..(len - 1) |-> i]
        taken == IF count < len THEN count ELSE len
    IN {{shuffled[k] : k \in 0..(taken - 1)} :
            shuffled \in shuffle_results(grid_indices, len - 1)}

gen_rand_grid_indices(len, count, rnd) ==
    LET grid_indices == [i \in 0..(len - 1) |-> i]
        shuffled == shuffle(grid_indices, len, rnd)
        taken == IF count < len THEN count ELSE len
    IN [k \in 1..taken |-> shuffled[k - 1]]

\* (n as f32 * 0.15f32).round() as usize: the exact product n * 0.15f32 is
\* rounded to a 24 bit significand (ties to even), then rounded to the
\* nearest integer (ties away from zero).
RECURSIVE bit_length(_)
bit_length(m) == IF m = 0 THEN 0 ELSE 1 + bit_length(m \div 2)

round_mine_count(n) ==
    LET m == n * MineDensityF32                \* value is m * 2^-26
        s == IF bit_length(m) > 24 THEN bit_length(m) - 24 ELSE 0
        q == m \div Pow2(s)
        rem == m % Pow2(s)
        half == IF s = 0 THEN 0 ELSE Pow2(s - 1)
        sig0 == IF s = 0 THEN q
                ELSE IF rem > half THEN q + 1
                ELSE IF rem < half THEN q
                ELSE IF q % 2 = 0 THEN q ELSE q + 1
        \* the f32 product is sig0 * 2^(s-26)
        k == 26 - s
    IN IF m = 0 THEN 0
       ELSE IF k <= 0 THEN sig0 * Pow2(0 - k)
       ELSE (sig0 + Pow2(k - 1)) \div Pow2(k)

\* adjacent_indices without the test that leaves out the cell itself
adjacent_indices_with_center(rows, cols, index) ==
    LET r == index \div cols
        c == index % cols
        rstart == IF r <= 1 THEN 0 ELSE r - 1
        cstart == IF c <= 1 THEN 0 ELSE c - 1
        rend == IF (r + 1) >= rows THEN rows - 1 ELSE r + 1
        cend == IF (c + 1) >= cols THEN cols - 1 ELSE c + 1
        w == cend - cstart + 1
        h == rend - rstart + 1
        window == [k \in 1..(h * w) |->
                      <<rstart + ((k - 1) \div w), cstart + ((k - 1) % w)>>]
    IN [k \in 1..Len(window) |-> window[k][1] * cols + window[k][2]]

\* returns the indices adjacent to index, in row-major order
adjacent_indices(rows, cols, index) ==
    LET r == index \div cols
        c == index % cols
        rstart == IF r <= 1 THEN 0 ELSE r - 1
        cstart == IF c <= 1 THEN 0 ELSE c - 1
        rend == IF (r + 1) >= rows THEN rows - 1 ELSE r + 1
        cend == IF (c + 1) >= cols THEN cols - 1 ELSE c + 1
        w == cend - cstart + 1
        h == rend - rstart + 1
        window == [k \in 1..(h * w) |->
                      <<rstart + ((k - 1) \div w), cstart + ((k - 1) % w)>>]
        not_center(p) == ~(p[1] = r /\ p[2] = c)
        kept == SelectSeq(window, not_center)
    IN [k \in 1..Len(kept) |-> kept[k][1] * cols + kept[k][2]]

\* for index in mine_ndxs.iter() { grid[*index] = Cell::new(CellKind::Mine) }
RECURSIVE place_mines(_, _)
place_mines(g, mine_ndxs) ==
    IF mine_ndxs = <<>> THEN g
    ELSE place_mines([g EXCEPT ![Head(mine_ndxs)] = Cell_new("Mine")],
                     Tail(mine_ndxs))

\* the count is set to 1 instead of being incremented
RECURSIVE increment_counts_set_one(_, _)
increment_counts_set_one(g, adj_ndxs) ==
    IF adj_ndxs = <<>> THEN g
    ELSE increment_counts_set_one(
             [g EXCEPT ![Head(adj_ndxs)] = set_adj_mine_count(g[Head(adj_ndxs)], 1)],
             Tail(adj_ndxs))

\* the count of a mined cell is not incremented
RECURSIVE increment_counts_skip_mines(_, _)
increment_counts_skip_mines(g, adj_ndxs) ==
    IF adj_ndxs = <<>> THEN g
    ELSE LET adj_ndx == Head(adj_ndxs)
             cur_count == (g[adj_ndx].adj_mine_count + 1) % U8Modulus
         IN increment_counts_skip_mines(
                IF is_mined(g[adj_ndx]) THEN g
                ELSE [g EXCEPT ![adj_ndx] = set_adj_mine_count(g[adj_ndx], cur_count)],
                Tail(adj_ndxs))

\* for adj_ndx in adjacent_indices(..) { count + 1 }
RECURSIVE increment_counts(_, _)
increment_counts(g, adj_ndxs) ==
    IF adj_ndxs = <<>> THEN g
    ELSE LET adj_ndx == Head(adj_ndxs)
             cur_count == (g[adj_ndx].adj_mine_count + 1) % U8Modulus
         IN increment_counts(
                [g EXCEPT ![adj_ndx] = set_adj_mine_count(g[adj_ndx], cur_count)],
                Tail(adj_ndxs))

\* for index in mine_ndxs.iter() { for adj_ndx in adjacent_indices(index) .. }
RECURSIVE count_adjacent_mines(_, _, _, _)
count_adjacent_mines(g, rows, cols, mine_ndxs) ==
    IF mine_ndxs = <<>> THEN g
    ELSE count_adjacent_mines(
             increment_counts(g, adjacent_indices(rows, cols, Head(mine_ndxs))),
             rows, cols, Tail(mine_ndxs))

\* the part of init after the mine locations are generated
build_grid(rows, cols, mine_ndxs) ==
    count_adjacent_mines(place_mines(empty_grid(rows, cols), mine_ndxs),
                         rows, cols, mine_ndxs)

\* Minesweeper::init; rnd holds the outcomes of random()
init(rows, cols, rnd) ==
    LET total == round_mine_count(rows * cols)
        mine_ndxs == gen_rand_grid_indices(rows * cols, total, rnd)
    IN build_grid(rows, cols, mine_ndxs)

\* ---- queries ---------------------------------------------------------------
mine_indices(g) ==
    LET all == [k \in 1..Cardinality(DOMAIN g) |-> k - 1]
        mined(ndx) == is_mined(g[ndx])
    IN SelectSeq(all, mined)

total_mines(rows, cols) == round_mine_count(rows * cols)

\* any instead of all
is_game_won_any(g) ==
    \E k \in 1..Len(mine_indices(g)) : is_flagged(g[mine_indices(g)[k]])

is_game_won(g) ==
    \A k \in 1..Len(mine_indices(g)) : is_flagged(g[mine_indices(g)[k]])

\* The result of a call that can panic: the value it returns, or the panic.
Returned(value) == [panicked |-> FALSE, value |-> value]

Panic(message) == [panicked |-> TRUE, value |-> message]

\* a usize below UsizeHalf as a 32 bit word
usize(n) == [hi |-> 0, lo |-> n]

\* a - b on usize, for a and b below UsizeHalf: the build either checks the
\* subtraction (overflow_checks, the default of a debug build) and panics
\* when b > a, or wraps modulo 2^32 (the default of a release build)
usize_sub(a, b, overflow_checks) ==
    IF a >= b THEN Returned(usize(a - b))
    ELSE IF overflow_checks THEN Panic("attempt to subtract with overflow")
    ELSE Returned([hi |-> UsizeHalf - 1, lo |-> UsizeHalf - (b - a)])

\* remaining_flags that stops at zero
remaining_flags_saturating(g, rows, cols, overflow_checks) ==
    LET flagged == Cardinality({i \in DOMAIN g : is_flagged(g[i])})
    IN IF total_mines(rows, cols) >= flagged
       THEN Returned(usize(total_mines(rows, cols) - flagged))
       ELSE Returned(usize(0))

remaining_flags(g, rows, cols, overflow_checks) ==
    LET flagged == Cardinality({i \in DOMAIN g : is_flagged(g[i])})
    IN usize_sub(total_mines(rows, cols), flagged, overflow_checks)

\* is_game_lost without the test for a Revealed mine
is_game_lost_flags_only(g, rows, cols, overflow_checks) ==
    LET mis_flagged == \E i \in DOMAIN g : is_flagged(g[i]) /\ ~is_mined(g[i])
        remaining == remaining_flags(g, rows, cols, overflow_checks)
    IN IF remaining.panicked THEN remaining
       ELSE Returned(remaining.value = usize(0) /\ mis_flagged)

\* mine_revealed || (self.remaining_flags() == 0 && mis_flagged): the right
\* operand, and with it remaining_flags(), is evaluated only when
\* mine_revealed is false
is_game_lost(g, rows, cols, overflow_checks) ==
    LET mine_revealed == \E k \in 1..Len(mine_indices(g)) :
                             is_revealed(g[mine_indices(g)[k]])
        mis_flagged == \E i \in DOMAIN g : is_flagged(g[i]) /\ ~is_mined(g[i])
        remaining == remaining_flags(g, rows, cols, overflow_checks)
    IN IF mine_revealed THEN Returned(TRUE)
       ELSE IF remaining.panicked THEN remaining
       ELSE Returned(remaining.value = usize(0) /\ mis_flagged)

\* ---- flood fill -------------------------------------------------------------
\* Recursive operators bind their arguments to values before using them
\* (x \in {e}), so that an argument is evaluated once however often the
\* body reads it.

\* the loop iteration without the filter on the adjacent cells
dfs_step_push_all(g, rows, cols, st) ==
    LET cur_ndx == st.to_visit[Len(st.to_visit)]
        rest == SubSeq(st.to_visit, 1, Len(st.to_visit) - 1)
    IN IF contains(st.visited, cur_ndx)
       THEN [st EXCEPT !.to_visit = rest]
       ELSE [visited |-> Append(st.visited, cur_ndx),
             to_visit |-> rest \o adjacent_indices(rows, cols, cur_ndx),
             connected_ndxs |-> IF is_lone_cell(g[cur_ndx])
                                THEN Append(st.connected_ndxs, cur_ndx)
                                ELSE st.connected_ndxs]

\* one iteration of the while loop of connected_lone_cell_indices;
\* st holds the three local vectors
dfs_step(g, rows, cols, st) ==
    LET cur_ndx == st.to_visit[Len(st.to_visit)]
        rest == SubSeq(st.to_visit, 1, Len(st.to_visit) - 1)
        lone(ndx) == is_lone_cell(g[ndx])
    IN IF contains(st.visited, cur_ndx)
       THEN [st EXCEPT !.to_visit = rest]
       ELSE [visited |-> Append(st.visited, cur_ndx),
             to_visit |-> rest \o SelectSeq(adjacent_indices(rows, cols, cur_ndx), lone),
             connected_ndxs |-> IF is_lone_cell(g[cur_ndx])
                                THEN Append(st.connected_ndxs, cur_ndx)
                                ELSE st.connected_ndxs]

\* while !to_visit.is_empty() { .. }: at most k iterations from st0, stopping
\* when to_visit is empty; the iterations are split in halves to keep the
\* evaluation depth logarithmic in their number
RECURSIVE dfs_loop(_, _, _, _, _)
dfs_loop(g, rows, cols, st0, k) ==
    CHOOSE result \in
        {IF st.to_visit = <<>> \/ k = 0 THEN st
         ELSE IF k = 1 THEN dfs_step(g, rows, cols, st)
         ELSE dfs_loop(g, rows, cols,
                       dfs_loop(g, rows, cols, st, k \div 2),
                       k - (k \div 2)) : st \in {st0}} : TRUE

\* every cell is expanded at most once and pushes at most 8 indices, so the
\* loop ends within 1 + 8 * rows * cols iterations
connected_lone_cell_indices(g, rows, cols, index) ==
    dfs_loop(g, rows, cols,
             [visited |-> <<>>, to_visit |-> <<index>>, connected_ndxs |-> <<>>],
             1 + 8 * rows * cols).connected_ndxs

\* the three local vectors when that many iterations have been made
dfs_end(g, rows, cols, index) ==
    dfs_loop(g, rows, cols,
             [visited |-> <<>>, to_visit |-> <<index>>, connected_ndxs |-> <<>>],
             1 + 8 * rows * cols)

\* The iteration order of a HashSet<usize> is unspecified: ord selects one of
\* the orders the model considers (ascending or descending).
HashOrders == {"asc", "desc"}

RECURSIVE ascending(_)
ascending(S) ==
    IF S = {} THEN <<>>
    ELSE LET m == CHOOSE x \in S : \A y \in S : x <= y
         IN <<m>> \o ascending(S \ {m})

hash_set_iter(S, ord) ==
    LET asc == ascending(S)
    IN IF ord = "asc" THEN asc
       ELSE [k \in 1..Len(asc) |-> asc[Len(asc) + 1 - k]]

\* reveal_lone_cells without the cells around the region
perimeter_cells_none(rows, cols, connected_ndxs) == {}

\* the HashSet adj_perimeter_cells of reveal_lone_cells
perimeter_cells(rows, cols, connected_ndxs) ==
    UNION {Range(adjacent_indices(rows, cols, connected_ndxs[k])) :
               k \in 1..Len(connected_ndxs)}

\* The mutual recursion reveal_cell -> reveal_lone_cells -> reveal_cell is run
\* on an explicit call stack.  A frame is one activation of reveal_lone_cells:
\* the indices its two loops have still to pass to reveal_cell (the connected
\* lone cells, then the perimeter).  depth is the deepest nesting of
\* reveal_lone_cells reached.

\* the work of one reveal_lone_cells(index): both vectors are built before
\* the loops start
lone_cells_frame(g, rows, cols, index, ord) ==
    LET connected_ndxs == connected_lone_cell_indices(g, rows, cols, index)
    IN connected_ndxs \o hash_set_iter(perimeter_cells(rows, cols, connected_ndxs), ord)

\* reveal_cell that hides a cell that is already Revealed
reveal_step_toggle(rows, cols, ord, m) ==
    LET top == m.stack[Len(m.stack)]
        below == SubSeq(m.stack, 1, Len(m.stack) - 1)
        ndx == Head(top)
        advanced == Append(below, Tail(top))
        g1 == [m.grid EXCEPT ![ndx] = set_state(m.grid[ndx], "Revealed")]
    IN IF top = <<>> THEN [m EXCEPT !.stack = below]
       ELSE IF ~is_revealed(m.grid[ndx])
       THEN IF is_lone_cell(g1[ndx])
            THEN [grid |-> g1,
                  stack |-> Append(advanced, lone_cells_frame(g1, rows, cols, ndx, ord)),
                  depth |-> IF Len(advanced) + 1 > m.depth
                            THEN Len(advanced) + 1 ELSE m.depth]
            ELSE [m EXCEPT !.grid = g1, !.stack = advanced]
       ELSE [m EXCEPT !.grid = [m.grid EXCEPT ![ndx] = set_state(m.grid[ndx], "Hidden")],
                      !.stack = advanced]

\* reveal_cell that calls reveal_lone_cells before it has set the cell to
\* Revealed
reveal_step_call_first(rows, cols, ord, m) ==
    LET top == m.stack[Len(m.stack)]
        below == SubSeq(m.stack, 1, Len(m.stack) - 1)
        ndx == Head(top)
        advanced == Append(below, Tail(top))
        g1 == [m.grid EXCEPT ![ndx] = set_state(m.grid[ndx], "Revealed")]
    IN IF top = <<>> THEN [m EXCEPT !.stack = below]
       ELSE IF ~is_revealed(m.grid[ndx])
       THEN IF is_lone_cell(g1[ndx])
            THEN [grid |-> m.grid,
                  stack |-> Append(advanced, lone_cells_frame(m.grid, rows, cols, ndx, ord)),
                  depth |-> IF Len(advanced) + 1 > m.depth
                            THEN Len(advanced) + 1 ELSE m.depth]
            ELSE [m EXCEPT !.grid = g1, !.stack = advanced]
       ELSE [m EXCEPT !.stack = advanced]

\* one step of the machine m = [grid, stack, depth]: return from a finished
\* reveal_lone_cells, or make the next reveal_cell(ndx) call of the top frame
reveal_step(rows, cols, ord, m) ==
    LET top == m.stack[Len(m.stack)]
        below == SubSeq(m.stack, 1, Len(m.stack) - 1)
        ndx == Head(top)
        advanced == Append(below, Tail(top))
        g1 == [m.grid EXCEPT ![ndx] = set_state(m.grid[ndx], "Revealed")]
    IN IF top = <<>> THEN [m EXCEPT !.stack = below]
       ELSE IF ~is_revealed(m.grid[ndx])
       THEN IF is_lone_cell(g1[ndx])
            THEN [grid |-> g1,
                  stack |-> Append(advanced, lone_cells_frame(g1, rows, cols, ndx, ord)),
                  depth |-> IF Len(advanced) + 1 > m.depth
                            THEN Len(advanced) + 1 ELSE m.depth]
            ELSE [m EXCEPT !.grid = g1, !.stack = advanced]
       ELSE [m EXCEPT !.stack = advanced]

\* at most k steps from m0, stopping when the stack is empty; the steps are
\* split in halves to keep the evaluation depth logarithmic in their number
RECURSIVE reveal_run(_, _, _, _, _)
reveal_run(rows, cols, ord, m0, k) ==
    CHOOSE result \in
        {IF m.stack = <<>> \/ k = 0 THEN m
         ELSE IF k = 1 THEN reveal_step(rows, cols, ord, m)
         ELSE reveal_run(rows, cols, ord,
                         reveal_run(rows, cols, ord, m, k \div 2),
                         k - (k \div 2)) : m \in {m0}} : TRUE

\* reveal_lone_cells runs at most once per lone cell and makes at most
\* 2 * rows * cols calls, so the machine stops within MaxRevealSteps
MaxRevealSteps(rows, cols) == (rows * cols + 1) * (2 * rows * cols + 1)

\* the machine after reveal_lone_cells(index), called on the grid g, has
\* returned
reveal_machine(g, rows, cols, index, ord) ==
    reveal_run(rows, cols, ord,
               [grid |-> g,
                stack |-> <<lone_cells_frame(g, rows, cols, index, ord)>>,
                depth |-> 1],
               MaxRevealSteps(rows, cols))

reveal_lone_cells(g, rows, cols, index, ord) ==
    reveal_machine(g, rows, cols, index, ord).grid

\* reveal_cell that never calls reveal_lone_cells
reveal_cell_no_cascade(g, rows, cols, index, ord) ==
    IF ~is_revealed(g[index])
    THEN [g EXCEPT ![index] = set_state(g[index], "Revealed")]
    ELSE g

reveal_cell(g, rows, cols, index, ord) ==
    IF ~is_revealed(g[index])
    THEN LET g1 == [g EXCEPT ![index] = set_state(g[index], "Revealed")]
         IN IF is_lone_cell(g1[index])
            THEN reveal_lone_cells(g1, rows, cols, index, ord)
            ELSE g1
    ELSE g

\* ---- marking operations -----------------------------------------------------
\* toggle_flag that never takes a flag away
toggle_flag_no_unflag(g, index) ==
    IF ~is_revealed(g[index])
    THEN [g EXCEPT ![index] = set_state(g[index], "Flagged")]
    ELSE g

toggle_flag(g, index) ==
    IF ~is_revealed(g[index])
    THEN IF is_flagged(g[index])
         THEN [g EXCEPT ![index] = set_state(g[index], "Hidden")]
         ELSE [g EXCEPT ![index] = set_state(g[index], "Flagged")]
    ELSE g

toggle_question(g, index) ==
    IF ~is_revealed(g[index])
    THEN IF is_questioned(g[index])
         THEN [g EXCEPT ![index] = set_state(g[index], "Hidden")]
         ELSE [g EXCEPT ![index] = set_state(g[index], "Questioned")]
    ELSE g

flag_cell(g, index) ==
    IF ~is_revealed(g[index])
    THEN [g EXCEPT ![index] = set_state(g[index], "Flagged")]
    ELSE g

question_cell(g, index) ==
    IF ~is_revealed(g[index])
    THEN [g EXCEPT ![index] = set_state(g[index], "Questioned")]
    ELSE g

\* unmark_cell without the test for a Revealed cell
unmark_cell_unguarded(g, index) ==
    [g EXCEPT ![index] = set_state(g[index], "Hidden")]

unmark_cell(g, index) ==
    IF ~is_revealed(g[index])
    THEN [g EXCEPT ![index] = set_state(g[index], "Hidden")]
    ELSE g

\* ---- the state machine ------------------------------------------------------
Indices == 0..(num_rows * num_cols - 1)

\* the index arguments of the player's calls
Targets == 0..(MaxTargets - 1)

\* the values of random() during one shuffle of len indices: the call made
\* at loop index i is call number len - 1 - i (from 0), and call number j
\* returns cycle[j % RandPeriod] / RandLevels
random_calls(cycle, len) ==
    [i \in 1..(len - 1) |-> cycle[(len - 1 - i) % RandPeriod]]

Init ==
    \E rows \in 3..MaxCells, cols \in 3..MaxCells :
        \E cycle \in [0..(RandPeriod - 1) -> 0..(RandLevels - 1)] :
            /\ rows * cols <= MaxCells
            /\ grid = init(rows, cols, random_calls(cycle, rows * cols))
            /\ num_rows = rows
            /\ num_cols = cols
            /\ lastOp = [op |-> "init", index |-> 0]
            /\ panicked = FALSE

\* the index arguments past the end of the grid
Beyond == (num_rows * num_cols)..(num_rows * num_cols + MaxBeyond - 1)

\* self.grid[index] on a Vec: the index is checked against the length, and
\* the expression panics when it is not below it
index_in_bounds(g, index) == index < Cardinality(DOMAIN g)

\* a call with an index past the end that returns as if nothing had happened
Played_no_panic(op, index) ==
    /\ ~panicked
    /\ lastOp' = [op |-> op, index |-> index]
    /\ panicked' = FALSE
    /\ UNCHANGED <<num_rows, num_cols>>

\* One call of an operation.  Every operation reads self.grid[index] before
\* anything else: with an index past the end the call panics there, which is
\* recorded as the operation "panic".  Nothing runs after a panic.
Played(op, index) ==
    /\ ~panicked
    /\ IF index_in_bounds(grid, index)
       THEN lastOp' = [op |-> op, index |-> index] /\ panicked' = FALSE
       ELSE lastOp' = [op |-> "panic", index |-> index] /\ panicked' = TRUE
    /\ UNCHANGED <<num_rows, num_cols>>

RevealCell ==
    \E index \in Targets \cup Beyond, ord \in HashOrders :
        /\ Played("reveal_cell", index)
        /\ grid' = IF index_in_bounds(grid, index)
                   THEN reveal_cell(grid, num_rows, num_cols, index, ord)
                   ELSE grid

ToggleFlag ==
    \E index \in Targets \cup Beyond :
        /\ Played("toggle_flag", index)
        /\ grid' = IF index_in_bounds(grid, index)
                   THEN toggle_flag(grid, index)
                   ELSE grid

ToggleQuestion ==
    \E index \in Targets \cup Beyond :
        /\ Played("toggle_question", index)
        /\ grid' = IF index_in_bounds(grid, index)
                   THEN toggle_question(grid, index)
                   ELSE grid

FlagCell ==
    \E index \in Targets \cup Beyond :
        /\ Played("flag_cell", index)
        /\ grid' = IF index_in_bounds(grid, index)
                   THEN flag_cell(grid, index)
                   ELSE grid

QuestionCell ==
    \E index \in Targets \cup Beyond :
        /\ Played("question_cell", index)
        /\ grid' = IF index_in_bounds(grid, index)
                   THEN question_cell(grid, index)
                   ELSE grid

UnmarkCell ==
    \E index \in Targets \cup Beyond :
        /\ Played("unmark_cell", index)
        /\ grid' = IF index_in_bounds(grid, index)
                   THEN unmark_cell(grid, index)
                   ELSE grid

Next ==
    \/ RevealCell
    \/ ToggleFlag
    \/ ToggleQuestion
    \/ FlagCell
    \/ QuestionCell
    \/ UnmarkCell

Spec == Init /\ [][Next]_vars

TypeOK ==
    /\ num_rows >= 3 /\ num_cols >= 3 /\ num_rows * num_cols <= MaxCells
    /\ DOMAIN grid = Indices
    /\ \A i \in Indices :
        /\ grid[i].state \in CellState
        /\ grid[i].kind \in CellKind
        /\ grid[i].adj_mine_count \in 0..(U8Modulus - 1)
    /\ lastOp.op \in {"init", "reveal_cell", "toggle_flag", "toggle_question",
                     "flag_cell", "question_cell", "unmark_cell", "panic"}
    /\ lastOp.index \in Targets \cup Beyond
    /\ panicked \in BOOLEAN
    /\ panicked <=> lastOp.op = "panic"

\* ---- vocabulary of the properties ---------------------------------------------
MineSet == {i \in Indices : grid[i].kind = "Mine"}

FlaggedSet == {i \in Indices : grid[i].state = "Flagged"}

RevealedSet == {i \in Indices : grid[i].state = "Revealed"}

\* cells i and j are different and their rows and columns differ by at most 1
Adjacent8(i, j) ==
    LET dr == (i \div num_cols) - (j \div num_cols)
        dc == (i % num_cols) - (j % num_cols)
    IN i # j /\ dr \in {-1, 0, 1} /\ dc \in {-1, 0, 1}

\* round(n * 0.15) in exact arithmetic, ties away from zero
ExactMineCount(n) == (15 * n + 50) \div 100

SomeOpPlayed == lastOp.op # "init"

\* ---- C1 -----------------------------------------------------------------------
\* C1: init places exactly round(rows*cols*0.15) mines at pairwise distinct
\* indices (so that many cells are of kind Mine), and in every state reached
\* by reveal and marking operations the number of Mine cells still equals
\* total_mines().
C1_MineCount ==
    /\ Cardinality(MineSet) = ExactMineCount(num_rows * num_cols)
    /\ Cardinality(MineSet) = total_mines(num_rows, num_cols)

\* a grid with two mines, after a player operation
C1_Witness ==
    /\ SomeOpPlayed
    /\ Cardinality(MineSet) = 2
    /\ total_mines(num_rows, num_cols) = 2

\* ---- C2 -----------------------------------------------------------------------
AdjacentMines(i) ==
    Cardinality({j \in Range(adjacent_indices(num_rows, num_cols, i)) : j \in MineSet})

\* C2: in every reachable state the stored adjacent_mine_count of every cell,
\* Empty or Mine, is the number of Mine cells among adjacent_indices of the
\* cell, and lies in 0..8.
C2_AdjacentCount ==
    \A i \in Indices :
        /\ grid[i].adj_mine_count = AdjacentMines(i)
        /\ grid[i].adj_mine_count \in 0..8

\* after a player operation, an Empty cell that borders two mines
C2_Witness ==
    /\ SomeOpPlayed
    /\ \E i \in Indices :
        /\ grid[i].kind = "Empty"
        /\ grid[i].adj_mine_count = 2
        /\ AdjacentMines(i) = 2

\* ---- C3 -----------------------------------------------------------------------
\* C3 as stated: every Mine cell has adjacent_mine_count 0, also a mine that
\* is adjacent to another mine.
C3_MineCountZero ==
    \A i \in MineSet : grid[i].adj_mine_count = 0

\* C3 amended: the count of a Mine cell is 0 exactly when no adjacent cell is
\* a mine; a mine adjacent to k other mines has count k.
C3_MineCountIsNeighbourMines ==
    \A i \in MineSet :
        /\ grid[i].adj_mine_count = Cardinality({j \in MineSet : Adjacent8(i, j)})
        /\ (grid[i].adj_mine_count = 0) <=> ~(\E j \in MineSet : Adjacent8(i, j))

\* two adjacent mines, each with count 1
C3_Witness ==
    \E i, j \in MineSet :
        /\ Adjacent8(i, j)
        /\ grid[i].adj_mine_count = 1
        /\ grid[j].adj_mine_count = 1

\* ---- C4 -----------------------------------------------------------------------
Lone(g, j) == g[j].kind = "Empty" /\ g[j].adj_mine_count = 0

\* the lone cells connected to the cells of S through 8-adjacent lone cells
RECURSIVE LoneClosure(_, _)
LoneClosure(g, S) ==
    LET T == S \cup {j \in Indices : Lone(g, j) /\ \E k \in S : Adjacent8(k, j)}
    IN IF T = S THEN S ELSE LoneClosure(g, T)

\* R: the lone region of the lone cell i
LoneRegion(g, i) == LoneClosure(g, {i})

\* R \cup P: the region and the cells adjacent to it
RegionAndPerimeter(g, i) ==
    LoneRegion(g, i) \cup
    UNION {Range(adjacent_indices(num_rows, num_cols, r)) : r \in LoneRegion(g, i)}

RevealedCell(cell) == [cell EXCEPT !.state = "Revealed"]

\* the grid g2 is what the claim says reveal_cell(i) makes of g
RevealPost(g, g2, i) ==
    g[i].state # "Revealed" =>
        IF Lone(g, i)
        THEN \A j \in Indices :
                g2[j] = IF j \in RegionAndPerimeter(g, i) THEN RevealedCell(g[j]) ELSE g[j]
        ELSE g2 = [g EXCEPT ![i] = RevealedCell(g[i])]

\* the 5 x 5 grid whose only mine is at index 24
Fixture5x5 == build_grid(5, 5, <<24>>)

Fixture5x5Revealed ==
    \A ord \in HashOrders :
        \A j \in 0..24 :
            reveal_cell(Fixture5x5, 5, 5, 0, ord)[j] =
                IF j = 24 THEN Fixture5x5[j] ELSE RevealedCell(Fixture5x5[j])

\* C4: reveal_cell(i) on a cell that is not Revealed reveals exactly cell i
\* when i is not a lone cell, and exactly the lone region of i and its
\* perimeter (whatever their marks) when i is a lone cell; on the 5 x 5 grid
\* whose only mine is at 24, reveal_cell(0) reveals the 24 Empty cells and
\* leaves the mine as it was.
C4_RevealPost ==
    /\ []Fixture5x5Revealed
    /\ [][lastOp'.op = "reveal_cell" => RevealPost(grid, grid', lastOp'.index)]_vars

\* after a reveal of a lone cell: its region and perimeter are Revealed and
\* some cell outside them is not
C4_Witness ==
    /\ lastOp.op = "reveal_cell"
    /\ Lone(grid, lastOp.index)
    /\ RegionAndPerimeter(grid, lastOp.index) \subseteq RevealedSet
    /\ Cardinality(LoneRegion(grid, lastOp.index)) > 1
    /\ RevealedSet # Indices

\* ---- C5 -----------------------------------------------------------------------
\* C5: reveal_cell(i) with cell i Empty never changes the state of a Mine
\* cell; a mine becomes Revealed only by reveal_cell with its own index.
C5_MinesNotCascaded ==
    [][/\ (lastOp'.op = "reveal_cell" /\ grid[lastOp'.index].kind = "Empty")
            => \A m \in MineSet : grid'[m].state = grid[m].state
       /\ \A m \in MineSet :
            (grid[m].state # "Revealed" /\ grid'[m].state = "Revealed")
                => lastOp' = [op |-> "reveal_cell", index |-> m]]_vars

\* after a cascade from an Empty lone cell every mine is still Hidden
C5_Witness ==
    /\ lastOp.op = "reveal_cell"
    /\ Lone(grid, lastOp.index)
    /\ Cardinality(RevealedSet) > 1
    /\ \A m \in MineSet : grid[m].state = "Hidden"

\* ---- C6 -----------------------------------------------------------------------
\* C6: reveal_cell is idempotent: after reveal_cell(i) a second reveal_cell(i)
\* leaves the grid (state, kind and count of every cell) as the first call
\* left it, and reveal_cell on a Revealed cell changes nothing.
C6_RevealIdempotent ==
    \A ord \in HashOrders :
        /\ lastOp.op = "reveal_cell"
            => reveal_cell(grid, num_rows, num_cols, lastOp.index, ord) = grid
        /\ \A i \in RevealedSet :
            reveal_cell(grid, num_rows, num_cols, i, ord) = grid

\* after a reveal that cascaded from a lone cell
C6_Witness ==
    /\ lastOp.op = "reveal_cell"
    /\ Lone(grid, lastOp.index)
    /\ grid[lastOp.index].state = "Revealed"
    /\ Cardinality(RevealedSet) > 3

\* ---- C7 -----------------------------------------------------------------------
MarkingOps == {"toggle_flag", "toggle_question", "flag_cell", "question_cell", "unmark_cell"}

\* C7: Revealed is absorbing: on a Revealed cell each of toggle_flag,
\* toggle_question, flag_cell, question_cell and unmark_cell leaves the whole
\* grid unchanged, and a Revealed cell stays Revealed in every later state.
C7_RevealedAbsorbing ==
    /\ [](\A i \in RevealedSet :
            /\ toggle_flag(grid, i) = grid
            /\ toggle_question(grid, i) = grid
            /\ flag_cell(grid, i) = grid
            /\ question_cell(grid, i) = grid
            /\ unmark_cell(grid, i) = grid)
    /\ [][/\ \A i \in Indices : grid[i].state = "Revealed" => grid'[i].state = "Revealed"
          /\ (lastOp'.op \in MarkingOps /\ grid[lastOp'.index].state = "Revealed")
                => grid' = grid]_vars

\* a marking operation was made on a Revealed cell
C7_Witness ==
    /\ lastOp.op \in MarkingOps
    /\ grid[lastOp.index].state = "Revealed"

\* ---- C8 -----------------------------------------------------------------------
\* C8: toggle_flag(i) on a Questioned cell leaves the cell Questioned and
\* toggle_question(i) on a Flagged cell leaves the cell Flagged.
C8_ToggleKeepsOtherMark ==
    [][/\ (lastOp'.op = "toggle_flag" /\ grid[lastOp'.index].state = "Questioned")
            => grid'[lastOp'.index].state = "Questioned"
       /\ (lastOp'.op = "toggle_question" /\ grid[lastOp'.index].state = "Flagged")
            => grid'[lastOp'.index].state = "Flagged"]_vars

\* ---- C9 -----------------------------------------------------------------------
\* g2 is g after toggle(i), and a second toggle(i) gives back g: through
\* mark when cell i is Hidden, without any change when it is Revealed
RoundTrip(g, g2, again, i, mark) ==
    /\ g[i].state = "Hidden" => (g2[i].state = mark /\ again = g)
    /\ g[i].state = "Revealed" => (g2 = g /\ again = g)

\* C9: on a Hidden cell toggle_flag(i); toggle_flag(i) passes through Flagged
\* and restores the grid; on a Revealed cell both calls are no-ops; the same
\* holds for toggle_question through Questioned.
C9_ToggleRoundTrip ==
    [][/\ lastOp'.op = "toggle_flag"
            => RoundTrip(grid, grid', toggle_flag(grid', lastOp'.index),
                         lastOp'.index, "Flagged")
       /\ lastOp'.op = "toggle_question"
            => RoundTrip(grid, grid', toggle_question(grid', lastOp'.index),
                         lastOp'.index, "Questioned")]_vars

\* a toggle_flag has brought a Flagged cell back to Hidden (toggle_flag gives
\* Hidden from no other state) and no cell holds a mark
C9_Witness ==
    /\ lastOp.op = "toggle_flag"
    /\ \A i \in Indices : grid[i].state = "Hidden"
    /\ toggle_flag(grid, lastOp.index)[lastOp.index].state = "Flagged"

\* ---- C10 ----------------------------------------------------------------------
\* C10 as stated: is_game_won() is true iff the set of mine indices equals
\* the set of Flagged indices.
C10_WonIffFlagsEqualMines ==
    is_game_won(grid) <=> (MineSet = FlaggedSet)

\* C10 amended: is_game_won() is true iff every mine is Flagged, that is iff
\* the set of mine indices is a subset of the set of Flagged indices.
C10_WonIffMinesFlagged ==
    is_game_won(grid) <=> (MineSet \subseteq FlaggedSet)

\* the game is won with a flag on a cell that holds no mine
C10_Witness ==
    /\ is_game_won(grid)
    /\ MineSet \subseteq FlaggedSet
    /\ FlaggedSet # MineSet

\* ---- C11 ----------------------------------------------------------------------
\* the two settings of overflow checking a build can have
Builds == BOOLEAN

MineRevealed == \E m \in MineSet : grid[m].state = "Revealed"

MisFlagged == \E i \in FlaggedSet : i \notin MineSet

\* C11: in every reachable state, also with more Flagged cells than
\* total_mines(), is_game_lost() returns the boolean (some mine is Revealed)
\* or (total_mines() - number of Flagged cells = 0 and some non-mine cell is
\* Flagged), in every build.
C11_LostValue ==
    \A overflow_checks \in Builds :
        LET lost == is_game_lost(grid, num_rows, num_cols, overflow_checks)
        IN /\ ~lost.panicked
           /\ lost.value <=>
                (MineRevealed \/
                 (total_mines(num_rows, num_cols) - Cardinality(FlaggedSet) = 0
                  /\ MisFlagged))

\* ---- C12 ----------------------------------------------------------------------
\* the grid after flag_cell(0), .., flag_cell(count - 1)
RECURSIVE flag_first(_, _)
flag_first(g, count) ==
    IF count = 0 THEN g ELSE flag_cell(flag_first(g, count - 1), count - 1)

LostInEveryBuild(g) ==
    \A overflow_checks \in Builds :
        LET lost == is_game_lost(g, num_rows, num_cols, overflow_checks)
        IN ~lost.panicked /\ lost.value

\* C12: when a mine is Revealed is_game_lost() returns true, with fewer
\* Flagged cells than total_mines(), as many, or more (the cells 0..count-1
\* flagged in addition, for every count), and a Revealed mine stays Revealed
\* in every later state.
C12_LossByMine ==
    /\ [](MineRevealed =>
            \A count \in 0..(num_rows * num_cols) :
                LostInEveryBuild(flag_first(grid, count)))
    /\ [][\A m \in MineSet : grid[m].state = "Revealed" => grid'[m].state = "Revealed"]_vars

\* a mine was revealed, a marking operation made afterwards has left as many
\* Flagged cells as total_mines(), and the game is lost
C12_Witness ==
    /\ MineRevealed
    /\ lastOp.op \in MarkingOps
    /\ Cardinality(FlaggedSet) = total_mines(num_rows, num_cols)
    /\ LostInEveryBuild(grid)

\* ---- C13 ----------------------------------------------------------------------
\* the 32 bit word w holds the integer n
HoldsInteger(w, n) == w.hi = 0 /\ w.lo = n

\* C13: in every reachable state remaining_flags() returns total_mines()
\* minus the number of Flagged cells, the negative difference when more
\* cells are Flagged than total_mines(), and neither panics nor wraps, in
\* every build.
C13_RemainingFlagsIsDifference ==
    \A overflow_checks \in Builds :
        LET remaining == remaining_flags(grid, num_rows, num_cols, overflow_checks)
        IN /\ ~remaining.panicked
           /\ HoldsInteger(remaining.value,
                           total_mines(num_rows, num_cols) - Cardinality(FlaggedSet))

\* ---- C14 ----------------------------------------------------------------------
\* C14: a call of reveal_cell, toggle_flag, toggle_question, flag_cell,
\* question_cell or unmark_cell with index >= rows*cols ends in a panic and
\* leaves every cell as it was; a call with a valid index does not panic.
C14_OutOfBoundsPanics ==
    [][/\ lastOp'.index >= num_rows * num_cols => (panicked' /\ grid' = grid)
       /\ lastOp'.index < num_rows * num_cols => ~panicked']_vars

\* a call with the index rows*cols has panicked on a grid that holds a
\* Revealed cell and a mark
C14_Witness ==
    /\ panicked
    /\ lastOp.index = num_rows * num_cols
    /\ RevealedSet # {}
    /\ \E i \in Indices : grid[i].state \in {"Flagged", "Questioned"}

\* ---- C15 ----------------------------------------------------------------------
\* the cells of a rows x cols grid other than i whose row and column differ
\* by at most 1 from those of i
Neighbours(rows, cols, i) ==
    {j \in 0..(rows * cols - 1) :
        /\ j # i
        /\ (j \div cols) - (i \div cols) \in {-1, 0, 1}
        /\ (j % cols) - (i % cols) \in {-1, 0, 1}}

StrictlyAscending(s) == \A k \in 1..(Len(s) - 1) : s[k] < s[k + 1]

AdjacentIndicesPost(rows, cols) ==
    \A i \in 0..(rows * cols - 1) :
        LET adj == adjacent_indices(rows, cols, i)
        IN /\ StrictlyAscending(adj)
           /\ Range(adj) = Neighbours(rows, cols, i)
           /\ \A k \in 1..Len(adj) : contains(adjacent_indices(rows, cols, adj[k]), i)

\* C15: for rows, cols >= 1 and every index of the grid, adjacent_indices
\* returns in strictly ascending order (hence without duplicates) exactly the
\* cells other than index whose row and column differ by at most 1; on the
\* 5 x 5 grid index 0 gives 1, 5, 6 and index 7 gives 8 cells; j is adjacent
\* to i iff i is adjacent to j.  The property does not depend on the state
\* of the game and is evaluated in the states that init makes.
C15_AdjacentIndices ==
    [](lastOp.op = "init" =>
        /\ \A rows \in 1..MaxSide, cols \in 1..MaxSide : AdjacentIndicesPost(rows, cols)
        /\ AdjacentIndicesPost(num_rows, num_cols)
        /\ adjacent_indices(5, 5, 0) = <<1, 5, 6>>
        /\ Len(adjacent_indices(5, 5, 7)) = 8)

\* init has counted a mine that has 8 adjacent cells into each of them
C15_Witness ==
    /\ lastOp.op = "init"
    /\ \E m \in MineSet :
        /\ Cardinality(Neighbours(num_rows, num_cols, m)) = 8
        /\ Len(adjacent_indices(num_rows, num_cols, m)) = 8
        /\ \A j \in Neighbours(num_rows, num_cols, m) : grid[j].adj_mine_count >= 1

\* ---- C16 ----------------------------------------------------------------------
\* S and the lone cells joined to a cell of S by a path of adjacent lone cells
RECURSIVE LoneReach(_, _, _, _)
LoneReach(g, rows, cols, S) ==
    LET T == S \cup {j \in DOMAIN g : Lone(g, j) /\ \E k \in S : j \in Neighbours(rows, cols, k)}
    IN IF T = S THEN S ELSE LoneReach(g, rows, cols, T)

NoDuplicates(s) == \A k, l \in 1..Len(s) : s[k] = s[l] => k = l

ConnectedPost(g, rows, cols, index) ==
    LET st == dfs_end(g, rows, cols, index)
    IN /\ st.to_visit = <<>>
       /\ connected_lone_cell_indices(g, rows, cols, index) = st.connected_ndxs
       /\ NoDuplicates(st.connected_ndxs)
       /\ Range(st.connected_ndxs) =
            {j \in LoneReach(g, rows, cols, {index}) : Lone(g, j)}
       /\ contains(st.connected_ndxs, index) <=> Lone(g, index)
       /\ \A k \in 1..Len(st.visited) : st.visited[k] = index \/ Lone(g, st.visited[k])

\* the 5 x 5 grid whose middle column is mined: its lone cells are the first
\* and the last column
FixtureWall == build_grid(5, 5, <<2, 7, 12, 17, 22>>)

\* C16: connected_lone_cell_indices(index) ends (to_visit is empty within
\* the iterations allowed) and returns, without duplicates, exactly the lone
\* cells joined to index by a path of adjacent cells that are lone after the
\* start; index is returned iff it is lone; only index and lone cells are
\* expanded.  Checked from every index of the grid that init makes, of the
\* two 5 x 5 fixtures, and from the index of every reveal_cell made.
C16_ConnectedLoneCells ==
    [](/\ lastOp.op = "init" =>
            /\ \A index \in Indices : ConnectedPost(grid, num_rows, num_cols, index)
            /\ \A index \in 0..24 :
                /\ ConnectedPost(Fixture5x5, 5, 5, index)
                /\ ConnectedPost(FixtureWall, 5, 5, index)
       /\ lastOp.op = "reveal_cell" =>
            ConnectedPost(grid, num_rows, num_cols, lastOp.index))

\* reveal_cell was called on a lone cell whose region has three cells or
\* more, which are Revealed, on a grid that has other cells
C16_Witness ==
    /\ lastOp.op = "reveal_cell"
    /\ Lone(grid, lastOp.index)
    /\ Len(connected_lone_cell_indices(grid, num_rows, num_cols, lastOp.index)) >= 3
    /\ Range(connected_lone_cell_indices(grid, num_rows, num_cols, lastOp.index))
            \subseteq RevealedSet
    /\ RevealedSet # Indices

\* ---- C17 ----------------------------------------------------------------------
\* C17: for every grid size len and every set S of total_mines distinct
\* indices in 0..len-1, also a set that holds index 0, there are values of
\* random() for which the mines are placed at exactly S.  The property does
\* not depend on the state of the game and is evaluated in the states that
\* init makes.
C17_EveryPlacementPossible ==
    lastOp.op = "init" =>
        \A len \in 1..MaxShuffleLen :
            gen_rand_grid_indices_results(len, round_mine_count(len)) =
                {S \in SUBSET (0..(len - 1)) : Cardinality(S) = round_mine_count(len)}

\* ---- C18 ----------------------------------------------------------------------
\* reveal_cell(index) on g returns: reveal_lone_cells, when it is called, has
\* emptied its call stack within the steps allowed, and its calls were never
\* nested deeper than the number of lone cells of the region of index plus 1
RevealReturns(g, rows, cols, index, ord) ==
    (~is_revealed(g[index]) /\ is_lone_cell(g[index])) =>
        LET g1 == [g EXCEPT ![index] = set_state(g[index], "Revealed")]
            m == reveal_machine(g1, rows, cols, index, ord)
        IN /\ m.stack = <<>>
           /\ m.depth <= Cardinality(LoneReach(g, rows, cols, {index})) + 1

\* the grid with every cell back to Hidden
Unplayed(g) == [i \in DOMAIN g |-> set_state(g[i], "Hidden")]

\* C18: reveal_cell(i) returns for every index of the grid that init makes,
\* for the 5 x 5 grid with one mine, and in every reachable state for the
\* indices the player uses; the nesting of reveal_lone_cells never exceeds
\* the number of lone cells of the region plus one.
C18_RevealReturns ==
    [](\A ord \in HashOrders :
        /\ lastOp.op = "init" =>
            /\ \A index \in Indices : RevealReturns(grid, num_rows, num_cols, index, ord)
            /\ RevealReturns(Fixture5x5, 5, 5, 0, ord)
        /\ ~panicked =>
            \A index \in Targets : RevealReturns(grid, num_rows, num_cols, index, ord))

\* a reveal_cell on a lone cell has returned, after calls of
\* reveal_lone_cells nested 3 deep or more
C18_Witness ==
    /\ lastOp.op = "reveal_cell"
    /\ Lone(grid, lastOp.index)
    /\ LoneRegion(grid, lastOp.index) \subseteq RevealedSet
    /\ LET g == Unplayed(grid)
           g1 == [g EXCEPT ![lastOp.index] = set_state(g[lastOp.index], "Revealed")]
           m == reveal_machine(g1, num_rows, num_cols, lastOp.index, "asc")
       IN m.stack = <<>> /\ m.depth >= 3

\* ---- C19 ----------------------------------------------------------------------
\* C19: in every reachable state every cell adjacent to a Revealed lone cell
\* is Revealed.
C19_RevealedLoneCellsAreSurrounded ==
    \A i \in RevealedSet :
        Lone(grid, i) =>
            Range(adjacent_indices(num_rows, num_cols, i)) \subseteq RevealedSet

\* a lone cell with 8 adjacent cells is Revealed with all of them, on a grid
\* that still has cells that are not Revealed
C19_Witness ==
    /\ \E i \in RevealedSet :
        /\ Lone(grid, i)
        /\ Cardinality(Neighbours(num_rows, num_cols, i)) = 8
        /\ Neighbours(num_rows, num_cols, i) \subseteq RevealedSet
    /\ RevealedSet # Indices

\* ---- C20 ----------------------------------------------------------------------
\* C20: is_game_won() and is_game_lost() are never both true, in every
\* build, and is_game_won() is false in every state in which a mine is
\* Revealed.
C20_WonAndLostExclude ==
    /\ \A overflow_checks \in Builds :
        LET lost == is_game_lost(grid, num_rows, num_cols, overflow_checks)
        IN ~(is_game_won(grid) /\ ~lost.panicked /\ lost.value)
    /\ MineRevealed => ~is_game_won(grid)

\* the game is won with a flag on a cell that holds no mine: more cells are
\* Flagged than total_mines() and is_game_lost() does not return true
C20_Witness ==
    /\ is_game_won(grid)
    /\ MisFlagged
    /\ Cardinality(FlaggedSet) > total_mines(num_rows, num_cols)
    /\ \A overflow_checks \in Builds :
        LET lost == is_game_lost(grid, num_rows, num_cols, overflow_checks)
        IN lost.panicked \/ ~lost.value
====
